---- MODULE Spec2Model ----
(***************************************************************************)
(* Model of lib/Core/BFSearcher.cpp: a bounded best-first search for the   *)
(* minimal weighted distance from a start instruction to a target, over    *)
(* an interprocedural control-flow graph with call/return matching.        *)
(*                                                                         *)
(* Instructions are numbered 1..N; the instructions of one basic block are *)
(* consecutive numbers, so ++iterator is +1.  A call stack is a sequence   *)
(* of call sites whose last element is the top (std::stack::push appends). *)
(***************************************************************************)
EXTENDS Integers, Sequences, FiniteSets, TLC

\* ------------------------------------------------------------------------
\* Bounds of the model
\* ------------------------------------------------------------------------
MaxDistanceBound == 8
MaxIterationsBound == 13
MaxQueueLengthBound == 3

\* ------------------------------------------------------------------------
\* The programs searched (the external Program Model, cost function and
\* target predicate).  kind: "inst" ordinary, "call", "ret", "br" any other
\* terminator.  first[p]: p is the front of its basic block.  succ[p]: the
\* fronts of the successor blocks of p's block.  callee[p]: index into
\* funcs of the function a call resolves to, 0 when getCalledFunction()
\* is null.  owner[p]: the function p belongs to, an index into funcs or,
\* for a function that is never called, the next free number.  targets:
\* the target predicates a query may be run with, each a set of
\* instructions and a minimal call-stack depth.
\* ------------------------------------------------------------------------
NoFuncs == << >>

\* Scenario A: five sequential points in one block.
ProgChain ==
  [ kind     |-> <<"inst", "inst", "inst", "inst", "ret">>,
    first    |-> <<TRUE, FALSE, FALSE, FALSE, FALSE>>,
    succ     |-> << <<>>, <<>>, <<>>, <<>>, <<>> >>,
    callee   |-> <<0, 0, 0, 0, 0>>,
    weight   |-> <<2, 1, 3, 1, 1>>,
    owner    |-> <<1, 1, 1, 1, 1>>,
    funcs    |-> NoFuncs,
    start    |-> 1,
    stack    |-> << >>,
    targets  |-> { [pts |-> {5}, depth |-> 0], [pts |-> {1, 5}, depth |-> 0] } ]

\* Scenario B: X (1..5) calls Y (6..7) calls X.  X branches to the call or
\* to a marker instruction 4.
ProgMutualRecursion ==
  [ kind     |-> <<"br", "call", "ret", "inst", "ret", "call", "ret">>,
    first    |-> <<TRUE, TRUE, FALSE, TRUE, FALSE, TRUE, FALSE>>,
    succ     |-> << <<2, 4>>, <<>>, <<>>, <<>>, <<>>, <<>>, <<>> >>,
    callee   |-> <<0, 2, 0, 0, 0, 1, 0>>,
    weight   |-> <<1, 1, 1, 1, 1, 1, 1>>,
    owner    |-> <<1, 1, 1, 1, 1, 2, 2>>,
    funcs    |-> << [entry |-> 1, intrinsic |-> FALSE, empty |-> FALSE],
                    [entry |-> 6, intrinsic |-> FALSE, empty |-> FALSE] >>,
    start    |-> 1,
    stack    |-> << >>,
    targets  |-> { [pts |-> {4}, depth |-> 4], [pts |-> {4}, depth |-> 2],
                   [pts |-> {}, depth |-> 0] } ]

\* Scenario C: a branch to a dead end (2) and to the target (5) at weighted
\* distance 2 + 4 + 1 = 7.
ProgBranch ==
  [ kind     |-> <<"br", "br", "inst", "inst", "ret">>,
    first    |-> <<TRUE, TRUE, TRUE, FALSE, FALSE>>,
    succ     |-> << <<2, 3>>, <<>>, <<>>, <<>>, <<>> >>,
    callee   |-> <<0, 0, 0, 0, 0>>,
    weight   |-> <<2, 1, 4, 1, 1>>,
    owner    |-> <<1, 1, 1, 1, 1>>,
    funcs    |-> NoFuncs,
    start    |-> 1,
    stack    |-> << >>,
    targets  |-> { [pts |-> {5}, depth |-> 0] } ]

\* A diamond: block 5 is reached through the expensive block 2 (1 + 3) and
\* through the cheap blocks 3..4 (1 + 1 + 1).
ProgDiamond ==
  [ kind     |-> <<"br", "br", "inst", "br", "ret">>,
    first    |-> <<TRUE, TRUE, TRUE, FALSE, TRUE>>,
    succ     |-> << <<2, 3>>, <<5>>, <<>>, <<5>>, <<>> >>,
    callee   |-> <<0, 0, 0, 0, 0>>,
    weight   |-> <<1, 3, 1, 1, 1>>,
    owner    |-> <<1, 1, 1, 1, 1>>,
    funcs    |-> NoFuncs,
    start    |-> 1,
    stack    |-> << >>,
    targets  |-> { [pts |-> {5}, depth |-> 0], [pts |-> {4}, depth |-> 0] } ]

\* Scenario E and call contexts: main (1..5) calls an unresolved function,
\* G twice (from 2 and from 3) and an intrinsic; G (6..9) has two returns.
ProgCalls ==
  [ kind     |-> <<"call", "call", "call", "call", "ret",
                   "br", "ret", "inst", "ret">>,
    first    |-> <<TRUE, FALSE, FALSE, FALSE, FALSE,
                   TRUE, TRUE, TRUE, FALSE>>,
    succ     |-> << <<>>, <<>>, <<>>, <<>>, <<>>,
                    <<7, 8>>, <<>>, <<>>, <<>> >>,
    callee   |-> <<0, 1, 1, 2, 0, 0, 0, 0, 0>>,
    weight   |-> <<3, 1, 1, 2, 1, 0, 1, 2, 1>>,
    owner    |-> <<3, 3, 3, 3, 3, 1, 1, 1, 1>>,
    funcs    |-> << [entry |-> 6, intrinsic |-> FALSE, empty |-> FALSE],
                    [entry |-> 0, intrinsic |-> TRUE, empty |-> TRUE] >>,
    start    |-> 1,
    stack    |-> << >>,
    targets  |-> { [pts |-> {2}, depth |-> 0], [pts |-> {5}, depth |-> 0] } ]

\* A query that begins mid-call: main (1..3) calls F (4..5) calls G (6..9);
\* the start is G's entry with the call sites 1 and 4 pending.  G calls F
\* again at 7 and a body-less function at 9.
ProgMidCall ==
  [ kind     |-> <<"call", "inst", "ret", "call", "ret",
                   "br", "call", "ret", "call", "ret">>,
    first    |-> <<TRUE, FALSE, FALSE, TRUE, FALSE,
                   TRUE, TRUE, FALSE, TRUE, FALSE>>,
    succ     |-> << <<>>, <<>>, <<>>, <<>>, <<>>,
                    <<7, 9>>, <<>>, <<>>, <<>>, <<>> >>,
    callee   |-> <<1, 0, 0, 2, 0, 0, 1, 0, 3, 0>>,
    weight   |-> <<1, 2, 1, 1, 1, 1, 1, 1, 0, 2>>,
    owner    |-> <<4, 4, 4, 1, 1, 2, 2, 2, 2, 2>>,
    funcs    |-> << [entry |-> 4, intrinsic |-> FALSE, empty |-> FALSE],
                    [entry |-> 6, intrinsic |-> FALSE, empty |-> FALSE],
                    [entry |-> 0, intrinsic |-> FALSE, empty |-> TRUE] >>,
    start    |-> 6,
    stack    |-> <<1, 4>>,
    targets  |-> { [pts |-> {3}, depth |-> 0], [pts |-> {6}, depth |-> 0] } ]

\* A CFG loop around a directly recursive call, all weights zero, and no
\* target: F (1..4) branches to a call of itself or to its return.
ProgLoop ==
  [ kind     |-> <<"br", "call", "br", "ret">>,
    first    |-> <<TRUE, TRUE, FALSE, TRUE>>,
    succ     |-> << <<2, 4>>, <<1>>, <<1>>, <<>> >>,
    callee   |-> <<0, 1, 0, 0>>,
    weight   |-> <<0, 0, 0, 0>>,
    owner    |-> <<1, 1, 1, 1>>,
    funcs    |-> << [entry |-> 1, intrinsic |-> FALSE, empty |-> FALSE] >>,
    start    |-> 1,
    stack    |-> << >>,
    targets  |-> { [pts |-> {}, depth |-> 0], [pts |-> {3}, depth |-> 1] } ]

\* A three-way branch: block 4 is a successor of block 1 and of block 2, so
\* a frontier that is full when 1 is expanded meets 4 again behind 2.
ProgFan ==
  [ kind     |-> <<"br", "br", "ret", "ret">>,
    first    |-> <<TRUE, TRUE, TRUE, TRUE>>,
    succ     |-> << <<2, 3, 4>>, <<4>>, <<>>, <<>> >>,
    callee   |-> <<0, 0, 0, 0>>,
    weight   |-> <<1, 1, 1, 1>>,
    owner    |-> <<1, 1, 1, 1>>,
    funcs    |-> NoFuncs,
    start    |-> 1,
    stack    |-> << >>,
    targets  |-> { [pts |-> {4}, depth |-> 0] } ]

Programs ==
  << ProgChain, ProgMutualRecursion, ProgBranch, ProgDiamond, ProgCalls,
     ProgMidCall, ProgLoop, ProgFan >>

VARIABLES
  prog,             \* index of the program the query runs on
  target,           \* the target predicate of the query
  unitWeights,      \* TRUE: distanceToPass is 1 everywhere
  maxDistance, maxIterations, maxQueueLength,    \* the configured bounds
  searchqueue,      \* the frontier: the states held by the priority queue
  duplicateFilter,  \* set of <<instruction, stack>> keys
  iterationCounter,
  pc,               \* "SEARCHING", "FOUND" or "EXHAUSTED"
  result,           \* the value searchForMinimalDistance returned
  admitted,         \* history: every state pushed into the frontier
  lastCurr,         \* history: the state expanded by the last iteration
  lastOffers,       \* history: the states that iteration offered
  capHit,           \* history: some state was dropped for the size cap
  dropped           \* history: the offers addToSearchQueue rejected

vars == << prog, target, unitWeights, maxDistance, maxIterations,
           maxQueueLength, searchqueue, duplicateFilter, iterationCounter,
           pc, result, admitted, lastCurr, lastOffers, capHit,
           dropped >>

Prog == Programs[prog]

\* The unsigned distance type.  TLC's integers are 32-bit signed, so uint is
\* modelled 16 bits wide; every distance of the model stays far below.
UintModulus == 65536

ToUint(n) == n % UintModulus

UintAdd(a, b) == ToUint(a + b)

\* return -1 from a function returning uint
UNREACHABLE == ToUint(-1)

NoState == [inst |-> 0, dist |-> 0, stack |-> << >>]

\* ------------------------------------------------------------------------
\* External collaborators
\* ------------------------------------------------------------------------
distanceToPass(inst) == IF unitWeights THEN 1 ELSE Prog.weight[inst]

isTheTarget(state) ==
  /\ state.inst \in target.pts
  /\ Len(state.stack) >= target.depth

CalledFunction(call) == Prog.callee[call]

IsBlockFront(inst) == Prog.first[inst]

\* ------------------------------------------------------------------------
\* BFSearchState
\* ------------------------------------------------------------------------
\* Mutant: the list is pushed from its last element to its first.
RECURSIVE PushAll_Reversed(_, _)
PushAll_Reversed(stack, list) ==
  IF list = << >> THEN stack
  ELSE Append(PushAll_Reversed(stack, Tail(list)), Head(list))

RECURSIVE PushAll(_, _)
PushAll(stack, list) ==
  IF list = << >> THEN stack
  ELSE PushAll(Append(stack, Head(list)), Tail(list))

BFSearchState(instruction, distanceFromStart, stack) ==
  [inst |-> instruction, dist |-> distanceFromStart, stack |-> stack]

\* std::stack top() and pop()
StackTop(stack) == stack[Len(stack)]

\* Mutant: two entries are removed.
StackPop_Two(stack) == SubSeq(stack, 1, Len(stack) - 2)

StackPop(stack) == SubSeq(stack, 1, Len(stack) - 1)

RECURSIVE ProbeStack(_, _)
ProbeStack(stackCopy, nextcalled) ==
  IF stackCopy = << >> THEN FALSE
  ELSE IF nextcalled = CalledFunction(StackTop(stackCopy)) THEN TRUE
  ELSE ProbeStack(StackPop(stackCopy), nextcalled)

\* Mutant: only the top entry of the stack is probed.
doesIntroduceRecursion_TopOnly(stack, next) ==
  IF stack = << >> THEN FALSE
  ELSE CalledFunction(next) = CalledFunction(StackTop(stack))

doesIntroduceRecursion(stack, next) ==
  IF stack = << >> THEN FALSE
  ELSE ProbeStack(stack, CalledFunction(next))

\* ------------------------------------------------------------------------
\* Duplicate filter and frontier.  An engine value e carries the queue,
\* the filter and the log of the states offered so far.
\* ------------------------------------------------------------------------
\* Two stack entries are the same when they wrap the same call site.
SameStackEntry(a, b) == a = b

\* Equality of two std::stack values: same depth, same entries in order.
SameStack(s, t) ==
  /\ Len(s) = Len(t)
  /\ \A k \in 1..Len(s) : SameStackEntry(s[k], t[k])

\* std::make_pair(&*state.instruction, state.stack)
FilterKey(state) == << state.inst, state.stack >>

SameKey(a, b) == a[1] = b[1] /\ SameStack(a[2], b[2])

\* Mutant: the key holds the depth of the call stack instead of the stack.
wasAddedEarlier_StackDepthKey(filter, state) ==
  IF IsBlockFront(state.inst)
  THEN \E key \in filter :
         key[1] = state.inst /\ Len(key[2]) = Len(state.stack)
  ELSE FALSE

\* Mutant: the lookup ignores the call stack of the key.
wasAddedEarlier_KeyWithoutStack(filter, state) ==
  IF IsBlockFront(state.inst)
  THEN \E key \in filter : key[1] = state.inst
  ELSE FALSE

\* Mutant: the filter is never consulted.
wasAddedEarlier_Never(filter, state) == FALSE

wasAddedEarlier(filter, state) ==
  IF IsBlockFront(state.inst)
  THEN \E key \in filter : SameKey(key, FilterKey(state))
  ELSE FALSE

\* Mutant: the block-front test is inverted, so no block front is recorded.
rememberAsAdded_NotFront(filter, state) ==
  IF ~IsBlockFront(state.inst)
  THEN filter \cup { << state.inst, state.stack >> }
  ELSE filter

rememberAsAdded(filter, state) ==
  IF IsBlockFront(state.inst)
  THEN filter \cup { FilterKey(state) }
  ELSE filter

Offer(state, verdict) == [state |-> state, verdict |-> verdict]

\* Mutant: the key is recorded whether or not the state is pushed.
addToSearchQueue_RememberAlways(e, state) ==
  IF ~wasAddedEarlier(e.filter, state) /\ Len(e.queue) <= maxQueueLength
  THEN [ queue  |-> Append(e.queue, state),
         filter |-> rememberAsAdded(e.filter, state),
         offers |-> Append(e.offers, Offer(state, "added")) ]
  ELSE [ e EXCEPT !.filter = rememberAsAdded(@, state),
                  !.offers =
           Append(@, Offer(state, IF wasAddedEarlier(e.filter, state)
                                  THEN "duplicate" ELSE "full")) ]

\* Mutant: the size of the queue is not checked.
addToSearchQueue_NoSizeCheck(e, state) ==
  IF ~wasAddedEarlier(e.filter, state)
  THEN [ queue  |-> Append(e.queue, state),
         filter |-> rememberAsAdded(e.filter, state),
         offers |-> Append(e.offers, Offer(state, "added")) ]
  ELSE [ e EXCEPT !.offers = Append(@, Offer(state, "duplicate")) ]

addToSearchQueue(e, state) ==
  IF ~wasAddedEarlier(e.filter, state) /\ Len(e.queue) <= maxQueueLength
  THEN [ queue  |-> Append(e.queue, state),
         filter |-> rememberAsAdded(e.filter, state),
         offers |-> Append(e.offers, Offer(state, "added")) ]
  ELSE [ e EXCEPT !.offers =
           Append(@, Offer(state, IF wasAddedEarlier(e.filter, state)
                                  THEN "duplicate" ELSE "full")) ]

\* Mutant: the weight of the passed instruction is not added.
enqueueInSearchQueue_NoWeight(e, oldState, next, newStack) ==
  addToSearchQueue(e, BFSearchState(next, oldState.dist, newStack))

\* Mutant: the distance of the old state is not carried over.
enqueueInSearchQueue_WeightOnly(e, oldState, next, newStack) ==
  addToSearchQueue(e,
    BFSearchState(next, distanceToPass(oldState.inst), newStack))

enqueueInSearchQueue(e, oldState, next, newStack) ==
  addToSearchQueue(e,
    BFSearchState(next,
                  UintAdd(oldState.dist, distanceToPass(oldState.inst)),
                  newStack))

\* The positions of the queue that top() may return: the states of minimal
\* distance; the order among equal distances is left open.
TopIndices(queue) ==
  { i \in 1..Len(queue) :
      \A j \in 1..Len(queue) : queue[i].dist <= queue[j].dist }

popFromSeachQueue(queue, i) ==
  SubSeq(queue, 1, i - 1) \o SubSeq(queue, i + 1, Len(queue))

\* ------------------------------------------------------------------------
\* One expansion step
\* ------------------------------------------------------------------------
\* Mutant: only the first successor block is enqueued.
EnqueueSuccessors_FirstOnly(e, curr, succs) ==
  IF succs = << >> THEN e
  ELSE enqueueInSearchQueue(e, curr, Head(succs), curr.stack)

RECURSIVE EnqueueSuccessors(_, _, _)
EnqueueSuccessors(e, curr, succs) ==
  IF succs = << >> THEN e
  ELSE EnqueueSuccessors(
         enqueueInSearchQueue(e, curr, Head(succs), curr.stack),
         curr, Tail(succs))

IsDefinedFunction(called) ==
  /\ called # 0
  /\ ~Prog.funcs[called].intrinsic
  /\ ~Prog.funcs[called].empty

\* Mutant: a return goes back to the outermost pending call site.
ReturnPoint_Bottom(stack) == stack[1] + 1

\* ++(gobackto.call) for gobackto = curr.stack.top()
ReturnPoint(stack) == StackTop(stack) + 1

doSingleSearchIteration(e, i) ==
  LET curr == e.queue[i]
      e0   == [e EXCEPT !.queue = popFromSeachQueue(e.queue, i),
                        !.offers = << >>]
      kind == Prog.kind[curr.inst]
  IN
  IF kind = "call" THEN
    LET called == CalledFunction(curr.inst) IN
    IF IsDefinedFunction(called) THEN
      IF ~doesIntroduceRecursion(curr.stack, curr.inst)
      THEN enqueueInSearchQueue(e0, curr, Prog.funcs[called].entry,
                                Append(curr.stack, curr.inst))
      ELSE e0
    ELSE enqueueInSearchQueue(e0, curr, curr.inst + 1, curr.stack)
  ELSE IF kind = "ret" THEN
    IF curr.stack # << >>
    THEN enqueueInSearchQueue(e0, curr, ReturnPoint(curr.stack),
                              StackPop(curr.stack))
    ELSE e0
  ELSE IF kind = "br" THEN
    EnqueueSuccessors(e0, curr, Prog.succ[curr.inst])
  ELSE enqueueInSearchQueue(e0, curr, curr.inst + 1, curr.stack)

\* ------------------------------------------------------------------------
\* Construction and the query driver
\* ------------------------------------------------------------------------
AddedStates(offers) ==
  LET idx == { k \in 1..Len(offers) : offers[k].verdict = "added" }
      F[k \in 0..Len(offers)] ==
        IF k = 0 THEN << >>
        ELSE IF k \in idx THEN Append(F[k - 1], offers[k].state)
        ELSE F[k - 1]
  IN F[Len(offers)]

\* The offers that were not pushed, each with the number of the iteration
\* that made it (0: construction).
Rejected(offers, at) ==
  { [state |-> offers[k].state, verdict |-> offers[k].verdict, at |-> at] :
      k \in { j \in 1..Len(offers) : offers[j].verdict # "added" } }

SomeFull(offers) == \E k \in 1..Len(offers) : offers[k].verdict = "full"

Init ==
  /\ prog \in 1..Len(Programs)
  /\ target \in Programs[prog].targets
  /\ unitWeights \in BOOLEAN
  /\ maxDistance \in 1..MaxDistanceBound
  /\ maxIterations \in 1..MaxIterationsBound
  /\ maxQueueLength \in 1..MaxQueueLengthBound
  /\ LET e == addToSearchQueue(
                [queue |-> << >>, filter |-> {}, offers |-> << >>],
                BFSearchState(Programs[prog].start, 0,
                              PushAll(<< >>, Programs[prog].stack)))
     IN /\ searchqueue = e.queue
        /\ duplicateFilter = e.filter
        /\ admitted = AddedStates(e.offers)
        /\ capHit = SomeFull(e.offers)
        /\ dropped = Rejected(e.offers, 0)
  /\ iterationCounter = 0
  /\ pc = "SEARCHING"
  /\ result = 0
  /\ lastCurr = NoState
  /\ lastOffers = << >>

\* Mutant: the operands of the distance comparison are swapped.
LoopCond_SwappedDistance(queue, counter) ==
  /\ queue # << >>
  /\ \A i \in TopIndices(queue) : maxDistance < queue[i].dist
  /\ counter < maxIterations

\* Mutant: the iteration bound is tested with <=.
LoopCond_OneMoreIteration(queue, counter) ==
  /\ queue # << >>
  /\ \A i \in TopIndices(queue) : queue[i].dist < maxDistance
  /\ counter <= maxIterations

\* Mutant: the distance of the top state is not tested.
LoopCond_NoDistanceCheck(queue, counter) ==
  /\ queue # << >>
  /\ counter < maxIterations

LoopCond(queue, counter) ==
  /\ queue # << >>
  /\ \A i \in TopIndices(queue) : queue[i].dist < maxDistance
  /\ counter < maxIterations

\* Mutant: the distance is noted but the loop is not left.
Found_StaysInLoop(i) ==
  /\ pc = "SEARCHING"
  /\ LoopCond(searchqueue, iterationCounter)
  /\ i \in TopIndices(searchqueue)
  /\ isTheTarget(searchqueue[i])
  /\ result' = searchqueue[i].dist
  /\ UNCHANGED << prog, target, unitWeights, maxDistance, maxIterations,
                  maxQueueLength, searchqueue, duplicateFilter,
                  iterationCounter, pc, admitted, lastCurr, lastOffers,
                  capHit, dropped >>

Found(i) ==
  /\ pc = "SEARCHING"
  /\ LoopCond(searchqueue, iterationCounter)
  /\ i \in TopIndices(searchqueue)
  /\ isTheTarget(searchqueue[i])
  /\ pc' = "FOUND"
  /\ result' = searchqueue[i].dist
  /\ UNCHANGED << prog, target, unitWeights, maxDistance, maxIterations,
                  maxQueueLength, searchqueue, duplicateFilter,
                  iterationCounter, admitted, lastCurr, lastOffers, capHit,
                  dropped >>

Iterate(i) ==
  /\ pc = "SEARCHING"
  /\ LoopCond(searchqueue, iterationCounter)
  /\ i \in TopIndices(searchqueue)
  /\ ~isTheTarget(searchqueue[i])
  /\ LET e == doSingleSearchIteration(
                [queue |-> searchqueue, filter |-> duplicateFilter,
                 offers |-> << >>], i)
     IN /\ searchqueue' = e.queue
        /\ duplicateFilter' = e.filter
        /\ admitted' = admitted \o AddedStates(e.offers)
        /\ lastOffers' = e.offers
        /\ capHit' = (capHit \/ SomeFull(e.offers))
        /\ dropped' = dropped \cup Rejected(e.offers, iterationCounter + 1)
  /\ lastCurr' = searchqueue[i]
  /\ iterationCounter' = iterationCounter + 1
  /\ UNCHANGED << prog, target, unitWeights, maxDistance, maxIterations,
                  maxQueueLength, pc, result >>

Exhaust ==
  /\ pc = "SEARCHING"
  /\ ~LoopCond(searchqueue, iterationCounter)
  /\ pc' = "EXHAUSTED"
  /\ result' = UNREACHABLE
  /\ UNCHANGED << prog, target, unitWeights, maxDistance, maxIterations,
                  maxQueueLength, searchqueue, duplicateFilter,
                  iterationCounter, admitted, lastCurr, lastOffers, capHit,
                  dropped >>

Next ==
  \/ \E i \in 1..Len(searchqueue) : Found(i)
  \/ \E i \in 1..Len(searchqueue) : Iterate(i)
  \/ Exhaust

Spec == Init /\ [][Next]_vars

\* The query runs to completion: the loop is never suspended, so a step
\* that is possible is eventually taken.  The liveness runs draw the
\* distance and queue bounds from their extremes and every iteration bound.
LiveInit ==
  /\ Init
  /\ maxDistance \in {1, 2, MaxDistanceBound}
  /\ maxQueueLength \in {1, MaxQueueLengthBound}

FairSpec == LiveInit /\ [][Next]_vars /\ WF_vars(Next)

\* ------------------------------------------------------------------------
\* Feasible paths, stated without the frontier: one step of a call/return
\* matched, recursion-free path from a state, and the least distance of a
\* target state over all such paths that stay below a distance limit.
\* ------------------------------------------------------------------------
FeasibleSteps(s) ==
  LET d    == s.dist + distanceToPass(s.inst)
      kind == Prog.kind[s.inst]
      f    == CalledFunction(s.inst)
      depth == Len(s.stack)
  IN
  IF kind = "call" /\ IsDefinedFunction(f) THEN
    IF depth > 0 /\ \E k \in 1..depth : CalledFunction(s.stack[k]) = f
    THEN {}
    ELSE { [inst |-> Prog.funcs[f].entry, dist |-> d,
            stack |-> s.stack \o << s.inst >>] }
  ELSE IF kind = "ret" THEN
    IF depth = 0 THEN {}
    ELSE { [inst |-> s.stack[depth] + 1, dist |-> d,
            stack |-> [k \in 1..(depth - 1) |-> s.stack[k]]] }
  ELSE IF kind = "br" THEN
    { [inst |-> Prog.succ[s.inst][k], dist |-> d, stack |-> s.stack] :
        k \in 1..Len(Prog.succ[s.inst]) }
  ELSE { [inst |-> s.inst + 1, dist |-> d, stack |-> s.stack] }

RECURSIVE FeasibleClosure(_, _, _)
FeasibleClosure(seen, frontier, limit) ==
  IF frontier = {} THEN seen
  ELSE LET new == { t \in UNION { FeasibleSteps(s) : s \in frontier } :
                      t.dist < limit /\ t \notin seen }
       IN FeasibleClosure(seen \cup new, new, limit)

StartState ==
  [inst |-> Prog.start, dist |-> 0, stack |-> Prog.stack]

FeasibleTargets(limit) ==
  { s \in FeasibleClosure({StartState}, {StartState}, limit) :
      isTheTarget(s) }

\* The minimal feasible distance below the limit, -1 when there is none.
MinFeasibleDistance(limit) ==
  LET T == FeasibleTargets(limit) IN
  IF T = {} THEN -1
  ELSE CHOOSE d \in { s.dist : s \in T } : \A s \in T : d <= s.dist

\* C1: a distance returned as FOUND while no state was dropped for the
\* frontier cap is the minimal weight of a feasible path from the start to
\* a target state.
C1_FoundIsMinimal ==
  (pc = "FOUND" /\ ~capHit) => result = MinFeasibleDistance(maxDistance)

\* C2: with unit weights, a target whose shortest feasible path has length
\* k < maxDistance is found with exactly k, provided the query did not stop
\* on the iteration bound and no state was dropped for the frontier cap.
C2_UnitWeightsReturnK ==
  ( /\ pc # "SEARCHING"
    /\ unitWeights
    /\ ~capHit
    /\ iterationCounter < maxIterations
    /\ MinFeasibleDistance(maxDistance) # -1 )
  => (pc = "FOUND" /\ result = MinFeasibleDistance(maxDistance))

\* Scenario A: the chain of five unit-weight points, target the fifth.
C2_Witness ==
  /\ pc = "FOUND"
  /\ unitWeights
  /\ ~capHit
  /\ prog = 1
  /\ target.pts = {5}
  /\ result = 4
  /\ MinFeasibleDistance(maxDistance) = 4

\* The state the constructor offers to the frontier.
InitialState ==
  BFSearchState(Prog.start, 0, PushAll(<< >>, Prog.stack))

\* C3: when the start state satisfies the target predicate, no expansion
\* step is ever performed, the query is able to return at once, and what it
\* returns is 0.
C3_StartIsTargetReturnsZero ==
  isTheTarget(InitialState) =>
    /\ iterationCounter = 0
    /\ lastCurr = NoState
    /\ searchqueue = << InitialState >>
    /\ pc = "SEARCHING" => ENABLED (\E i \in 1..Len(searchqueue) : Found(i))
    /\ pc # "SEARCHING" => (pc = "FOUND" /\ result = 0)

C3_Witness ==
  /\ isTheTarget(InitialState)
  /\ InitialState.stack # << >>
  /\ maxQueueLength = 1 /\ maxDistance = 1 /\ maxIterations = 1
  /\ pc = "FOUND"
  /\ result = 0

\* C4: every query eventually is in FOUND for ever or in EXHAUSTED for ever.
C4_ReachesOneTerminalState ==
  /\ <>(pc \in {"FOUND", "EXHAUSTED"})
  /\ [][pc # "SEARCHING" => pc' = pc]_vars

\* The loop program (CFG cycle and direct recursion, zero weights) runs out
\* of states before any bound is met.
C4_Witness ==
  /\ prog = 7
  /\ ~unitWeights
  /\ pc = "EXHAUSTED"
  /\ searchqueue = << >>
  /\ iterationCounter < maxIterations
  /\ ~capHit

\* C5: the frontier never holds more than maxQueueLength states.
C5_FrontierWithinCap == Len(searchqueue) <= maxQueueLength

\* C6 as stated: the successful insertions of a query, the start state
\* included, never number more than maxQueueLength.
C6_InsertionsWithinCap == Len(admitted) <= maxQueueLength

\* C6 amended: the successful insertions never exceed the expansion steps
\* (each of which removes one state) by more than maxQueueLength + 1.
C6_InsertionsMinusRemovalsWithinCap ==
  Len(admitted) - iterationCounter <= maxQueueLength + 1

C6_Witness ==
  /\ Len(admitted) > maxQueueLength + 1
  /\ Len(admitted) - iterationCounter = maxQueueLength + 1
  /\ capHit

\* C7: no query performs more than maxIterations expansion steps, FOUND is
\* returned only while iterationCounter < maxIterations, and a query that
\* has used up its iterations returns UNREACHABLE.
C7_IterationBound ==
  /\ iterationCounter <= maxIterations
  /\ pc = "FOUND" => iterationCounter < maxIterations
  /\ (pc # "SEARCHING" /\ iterationCounter >= maxIterations)
       => result = UNREACHABLE

\* The target is the frontier minimum, below maxDistance, exactly when the
\* iterations are used up: UNREACHABLE is returned.
C7_Witness ==
  /\ pc = "EXHAUSTED"
  /\ iterationCounter = maxIterations
  /\ searchqueue # << >>
  /\ \A i \in TopIndices(searchqueue) :
       isTheTarget(searchqueue[i]) /\ searchqueue[i].dist < maxDistance
  /\ result = UNREACHABLE

\* C8: no two admitted states have the same block-front instruction and the
\* same call stack.
C8_OneAdmissionPerKey ==
  \A i, j \in 1..Len(admitted) :
    ( /\ i # j
      /\ IsBlockFront(admitted[i].inst)
      /\ admitted[i].inst = admitted[j].inst )
    => admitted[i].stack # admitted[j].stack

\* A state is offered whose key was admitted before, and it is dropped.
C8_Witness ==
  \E k \in 1..Len(lastOffers) :
    /\ lastOffers[k].verdict = "duplicate"
    /\ \E i \in 1..Len(admitted) :
         /\ admitted[i].inst = lastOffers[k].state.inst
         /\ admitted[i].stack = lastOffers[k].state.stack
         /\ admitted[i].dist # lastOffers[k].state.dist

\* C9: the expansion of a return offers nothing when the call stack is
\* empty, and otherwise exactly one state: the point after the call site on
\* top of the stack, with that entry removed and the weight of the return
\* added.
C9_ReturnGoesToCaller ==
  (lastCurr # NoState /\ Prog.kind[lastCurr.inst] = "ret") =>
    LET depth == Len(lastCurr.stack) IN
    IF depth = 0 THEN lastOffers = << >>
    ELSE /\ Len(lastOffers) = 1
         /\ lastOffers[1].state =
              [ inst  |-> lastCurr.stack[depth] + 1,
                dist  |-> lastCurr.dist + distanceToPass(lastCurr.inst),
                stack |-> [k \in 1..(depth - 1) |-> lastCurr.stack[k]] ]

\* A return at depth 2, whose function is also called from elsewhere.
C9_Witness ==
  /\ prog = 6
  /\ lastCurr # NoState
  /\ Prog.kind[lastCurr.inst] = "ret"
  /\ lastCurr.stack = <<1, 4>>
  /\ Len(lastOffers) = 1
  /\ lastOffers[1].state.inst = 5
  /\ lastOffers[1].state.stack = <<1>>

\* C10: the expansion of a call to a defined function F offers no state
\* exactly when F is the callee of an entry of the call stack, which an
\* empty stack never has; and the query of scenario B (target only in the
\* third invocation of X) does not find the target.
C10_RecursivePrunedOnly ==
  /\ ( /\ lastCurr # NoState
       /\ Prog.kind[lastCurr.inst] = "call"
       /\ IsDefinedFunction(CalledFunction(lastCurr.inst)) )
     => /\ (lastOffers = << >>) <=>
             (\E k \in 1..Len(lastCurr.stack) :
                CalledFunction(lastCurr.stack[k]) =
                  CalledFunction(lastCurr.inst))
        /\ lastCurr.stack = << >> => Len(lastOffers) = 1
  /\ (prog = 2 /\ target.depth = 4 /\ pc # "SEARCHING")
     => result = UNREACHABLE

\* Scenario B ran to the end with no bound met: the second invocation of X
\* was entered and its call of Y was dropped.
C10_Witness ==
  /\ prog = 2
  /\ target.depth = 4
  /\ pc = "EXHAUSTED"
  /\ searchqueue = << >>
  /\ ~capHit
  /\ iterationCounter < maxIterations
  /\ \E k \in 1..Len(admitted) :
       admitted[k].inst = 2 /\ admitted[k].stack = <<2, 6>>

\* ------------------------------------------------------------------------
\* The functions pending at a state of a call/return matched path: the one
\* its instruction belongs to and the ones holding its pending call sites.
\* ------------------------------------------------------------------------
FunctionOf(inst) == Prog.owner[inst]

PendingFunctions(state) ==
  { FunctionOf(state.inst) } \cup
  { FunctionOf(state.stack[k]) : k \in 1..Len(state.stack) }

\* C11: no expanded call enters a function that is pending on the path of
\* the expanded state, the function of the start point included.
C11_NoPendingFunctionEntered ==
  ( /\ lastCurr # NoState
    /\ Prog.kind[lastCurr.inst] = "call"
    /\ IsDefinedFunction(CalledFunction(lastCurr.inst))
    /\ lastOffers # << >> )
  => CalledFunction(lastCurr.inst) \notin PendingFunctions(lastCurr)

\* C12: a FOUND result is a distance below maxDistance and differs from the
\* sentinel, every other result is the sentinel, and a query none of whose
\* admitted target states lies below maxDistance returns the sentinel.
C12_ResultIsDistanceOrSentinel ==
  pc # "SEARCHING" =>
    /\ pc = "FOUND" =>
         (0 <= result /\ result < maxDistance /\ result # UNREACHABLE)
    /\ pc = "EXHAUSTED" => result = UNREACHABLE
    /\ (\A k \in 1..Len(admitted) :
          isTheTarget(admitted[k]) => admitted[k].dist >= maxDistance)
       => result = UNREACHABLE

\* The cheapest admitted target state is the frontier minimum, at a
\* distance of maxDistance or more, with iterations and queue room left.
C12_Witness ==
  /\ pc = "EXHAUSTED"
  /\ result = UNREACHABLE
  /\ iterationCounter < maxIterations
  /\ ~capHit
  /\ searchqueue # << >>
  /\ \A i \in TopIndices(searchqueue) :
       isTheTarget(searchqueue[i]) /\ searchqueue[i].dist >= maxDistance
  /\ \A k \in 1..Len(admitted) :
       isTheTarget(admitted[k]) => admitted[k].dist >= maxDistance

\* C13: the expansion of a call whose callee is unresolved, intrinsic or
\* without a body offers exactly the next instruction of the block, with
\* the same call stack and the weight of the call added; scenario E (the
\* target right after such a call at the start) returns that weight.
C13_OpaqueCallCostsOneStep ==
  /\ ( /\ lastCurr # NoState
       /\ Prog.kind[lastCurr.inst] = "call"
       /\ ~IsDefinedFunction(CalledFunction(lastCurr.inst)) )
     => /\ Len(lastOffers) = 1
        /\ lastOffers[1].state =
             [ inst  |-> lastCurr.inst + 1,
               dist  |-> lastCurr.dist + distanceToPass(lastCurr.inst),
               stack |-> lastCurr.stack ]
  /\ ( /\ prog = 5
       /\ target.pts = {2}
       /\ pc # "SEARCHING"
       /\ distanceToPass(1) < maxDistance
       /\ maxIterations > 1 )
     => (pc = "FOUND" /\ result = distanceToPass(1))

\* Scenario E with the weight 3 on the unresolved call.
C13_Witness ==
  /\ prog = 5
  /\ target.pts = {2}
  /\ ~unitWeights
  /\ lastCurr = [inst |-> 1, dist |-> 0, stack |-> << >>]
  /\ CalledFunction(1) = 0
  /\ pc = "FOUND"
  /\ result = 3

\* C14: the start state of a query built from a list of call sites has the
\* last call site on top; a return expanded while the first j call sites
\* of the list are the stack goes to the point after the j-th and leaves
\* the first j - 1; and a call to the callee of a listed call site that is
\* still on the stack offers nothing.
ListPrefix(j) == [k \in 1..j |-> Prog.stack[k]]

HasListPrefix(stack, j) ==
  /\ j <= Len(stack)
  /\ j <= Len(Prog.stack)
  /\ \A k \in 1..j : stack[k] = Prog.stack[k]

C14_InitialStackInnermostOnTop ==
  Prog.stack # << >> =>
    /\ admitted[1].inst = Prog.start
    /\ Len(admitted[1].stack) = Len(Prog.stack)
    /\ StackTop(admitted[1].stack) = Prog.stack[Len(Prog.stack)]
    /\ \A j \in 1..Len(Prog.stack) :
         ( /\ lastCurr # NoState
           /\ Prog.kind[lastCurr.inst] = "ret"
           /\ lastCurr.stack = ListPrefix(j) )
         => /\ Len(lastOffers) = 1
            /\ lastOffers[1].state.inst = Prog.stack[j] + 1
            /\ lastOffers[1].state.stack = ListPrefix(j - 1)
    /\ \A j \in 1..Len(Prog.stack) :
         ( /\ lastCurr # NoState
           /\ Prog.kind[lastCurr.inst] = "call"
           /\ IsDefinedFunction(CalledFunction(lastCurr.inst))
           /\ HasListPrefix(lastCurr.stack, j)
           /\ CalledFunction(lastCurr.inst) = CalledFunction(Prog.stack[j]) )
         => lastOffers = << >>

\* The mid-call query has unwound the innermost call site 4 and now the
\* outer call site 1, after the call of F at 7 was admitted for expansion.
C14_Witness ==
  /\ prog = 6
  /\ Prog.stack = <<1, 4>>
  /\ lastCurr # NoState
  /\ Prog.kind[lastCurr.inst] = "ret"
  /\ lastCurr.stack = <<1>>
  /\ lastOffers[1].state.inst = 2
  /\ lastOffers[1].state.stack = << >>
  /\ \E k \in 1..Len(admitted) :
       admitted[k].inst = 5 /\ admitted[k].stack = <<1>>
  /\ \E k \in 1..Len(admitted) :
       admitted[k].inst = 7 /\ admitted[k].stack = <<1, 4>>

C16_BranchOffersEverySuccessor ==
  /\ (lastCurr # NoState /\ Prog.kind[lastCurr.inst] = "br") =>
       /\ Len(lastOffers) = Len(Prog.succ[lastCurr.inst])
       /\ \A k \in 1..Len(lastOffers) :
            /\ IsBlockFront(Prog.succ[lastCurr.inst][k])
            /\ lastOffers[k].state =
                 [ inst  |-> Prog.succ[lastCurr.inst][k],
                   dist  |-> lastCurr.dist + distanceToPass(lastCurr.inst),
                   stack |-> lastCurr.stack ]
  /\ (prog = 3 /\ ~unitWeights /\ pc = "FOUND") => result = 7
  /\ (prog = 3 /\ ~unitWeights /\ pc = "EXHAUSTED") =>
       (maxDistance <= 7 \/ iterationCounter = maxIterations)

\* Scenario C: the dead end 2 and the target's block were both expanded and
\* the query returned 7.
C16_Witness ==
  /\ prog = 3
  /\ ~unitWeights
  /\ pc = "FOUND"
  /\ result = 7
  /\ \E k \in 1..Len(admitted) : admitted[k].inst = 2
  /\ Len(searchqueue) = 1

\* The call stack an expansion of curr hands to its successors.
SuccessorStack(curr) ==
  LET kind == Prog.kind[curr.inst] IN
  IF kind = "call" /\ IsDefinedFunction(CalledFunction(curr.inst))
  THEN curr.stack \o << curr.inst >>
  ELSE IF kind = "ret"
  THEN SubSeq(curr.stack, 1, Len(curr.stack) - 1)
  ELSE curr.stack

\* C17: every state offered by an expansion carries the parent's stack with
\* the call site pushed (call to a defined function), with the top entry
\* popped (return), or unchanged (branch, ordinary instruction, opaque
\* call); and an expansion leaves every other state of the frontier as it
\* was: the frontier after the step is the frontier without the popped
\* state, followed by the states the step admitted.
C17_StackChangesOnlyByCallAndReturn ==
  /\ [](lastCurr # NoState =>
          \A k \in 1..Len(lastOffers) :
            lastOffers[k].state.stack = SuccessorStack(lastCurr))
  /\ [][iterationCounter' # iterationCounter =>
          \E i \in TopIndices(searchqueue) :
            /\ lastCurr' = searchqueue[i]
            /\ searchqueue' = popFromSeachQueue(searchqueue, i)
                                \o AddedStates(lastOffers')]_vars

\* A return two calls deep was expanded next to another state of the
\* frontier, and its successor was admitted one call deep.
C17_Witness ==
  /\ lastCurr # NoState
  /\ Prog.kind[lastCurr.inst] = "ret"
  /\ Len(lastCurr.stack) = 2
  /\ Len(lastOffers) = 1
  /\ lastOffers[1].verdict = "added"
  /\ Len(lastOffers[1].state.stack) = 1
  /\ Len(searchqueue) >= 2

\* The keys the duplicate filter holds for a sequence of pushed states.
KeysOf(states) ==
  { FilterKey(states[k]) :
      k \in { j \in 1..Len(states) : IsBlockFront(states[j].inst) } }

\* C18: a rejected offer changes neither the frontier nor the duplicate
\* filter: the filter holds exactly the keys of the block-front states that
\* were pushed, an iteration grows the frontier by the states it pushed and
\* the filter by their keys, and a block-front key rejected only for the
\* size cap is absent from the filter until a state with that key is pushed.
C18_RejectionChangesNothing ==
  /\ [](duplicateFilter = KeysOf(admitted))
  /\ [](Len(searchqueue) + iterationCounter = Len(admitted))
  /\ [](\A d \in dropped :
          (d.verdict = "full" /\ IsBlockFront(d.state.inst)) =>
            \/ FilterKey(d.state) \notin duplicateFilter
            \/ \E k \in 1..Len(admitted) :
                 FilterKey(admitted[k]) = FilterKey(d.state))
  /\ [][iterationCounter' # iterationCounter =>
          /\ duplicateFilter' =
               duplicateFilter \cup KeysOf(AddedStates(lastOffers'))
          /\ Len(searchqueue') =
               Len(searchqueue) - 1 + Len(AddedStates(lastOffers'))]_vars

\* A block-front state was rejected because the frontier was full, and a
\* later iteration pushed a state with the same key.
C18_Witness ==
  \E d \in dropped :
    /\ d.verdict = "full"
    /\ IsBlockFront(d.state.inst)
    /\ d.at < iterationCounter
    /\ \E k \in 1..Len(lastOffers) :
         /\ lastOffers[k].verdict = "added"
         /\ FilterKey(lastOffers[k].state) = FilterKey(d.state)

\* C19: with non-negative weights the states are popped in order of
\* non-decreasing distance, and when a distance is returned as FOUND no
\* state left in the frontier has a smaller distance.
C19_PopsInDistanceOrder ==
  /\ [](pc = "FOUND" =>
          \A k \in 1..Len(searchqueue) : searchqueue[k].dist >= result)
  /\ [][(iterationCounter' # iterationCounter /\ lastCurr # NoState) =>
          lastCurr'.dist >= lastCurr.dist]_vars

\* FOUND with a positive distance after several pops of growing distance,
\* while a state of larger distance waits in the frontier.
C19_Witness ==
  /\ pc = "FOUND"
  /\ result > 0
  /\ iterationCounter >= 3
  /\ lastCurr # NoState
  /\ lastCurr.dist > 0
  /\ \E k \in 1..Len(searchqueue) : searchqueue[k].dist > result

\* C20: on a program whose target is never met, started with an empty call
\* stack and with every bound at its largest value, the frontier becomes
\* empty before the iteration bound is used up and without a state dropped
\* for the size cap: the duplicate filter and the recursion pruning end the
\* search, with zero weights and with unit weights alike.
C20_FrontierDrainsWithoutBounds ==
  ( /\ target.pts = {}
    /\ Prog.stack = << >>
    /\ maxDistance = MaxDistanceBound
    /\ maxIterations = MaxIterationsBound
    /\ maxQueueLength = MaxQueueLengthBound )
  => <>( /\ searchqueue = << >>
         /\ iterationCounter < maxIterations
         /\ ~capHit )

\* The loop with the recursive call and zero weights ran dry: a call was
\* pruned, a block was met again and dropped, no bound was reached.
C20_Witness ==
  /\ prog = 7
  /\ ~unitWeights
  /\ target.pts = {}
  /\ pc = "EXHAUSTED"
  /\ searchqueue = << >>
  /\ iterationCounter < maxIterations
  /\ ~capHit
  /\ maxDistance = MaxDistanceBound
  /\ \E d \in dropped : d.verdict = "duplicate"
  /\ \E k \in 1..Len(admitted) : Len(admitted[k].stack) = 1

TypeOK ==
  /\ pc \in {"SEARCHING", "FOUND", "EXHAUSTED"}
  /\ iterationCounter \in Nat
====
